---- MODULE Spec2Model ----
(***************************************************************************)
(* A model of WeiboCrawler (src/weibo_crawler/weibo_crawler.py) as driven  *)
(* by src/main.py: the search pagination loop search_weibo with its card   *)
(* normalizer, time filter, long-text expansion and per-page export, the   *)
(* pure function check_time, and the generator get_weibo_by_uid.           *)
(*                                                                         *)
(* Optional values (None, "", a missing key) are sequences of length 0,    *)
(* present values sequences of length 1.                                   *)
(***************************************************************************)
EXTENDS Integers, Sequences, FiniteSets, TLC

VARIABLES
    \* ---- search_weibo ----
    pc,               \* position in search_weibo: "loop", "fetched", "parse", "merge", "done", "failed"
    page,             \* the page counter (line 36, 40)
    limit,            \* the limit argument
    start_time,       \* the start_time argument (None: "" or None)
    end_time,         \* the end_time argument
    weibo_df,         \* the accumulator of search_weibo (line 37)
    temp_weibo_df,    \* the data frame _parse_search_result builds and returns
    status,           \* status code of the last search-page response
    ncards,           \* len(search_result['data']['cards']) of the last response
    index,            \* cards of the current page already handled by the for loop
    item,             \* the card the for loop handled last
    lt_request,       \* the id the last handled card asked the long-text endpoint for
    error,            \* the exception that ended search_weibo, "none" if none
    file,             \* rows of <keyword>.xlsx
    exported_page,    \* the page whose iteration wrote the file last, 0: never written
    page_done,        \* the last page whose iteration reached line 51
    last_page_count,  \* records the last appended page contributed
    params_page,      \* the "page" parameter of the last search request
    \* ---- check_time called on its own ----
    t_pc,             \* "call" before, "returned" after the call
    weibo_time,       \* the weibo_time argument
    check_result,     \* the value returned
    \* ---- get_weibo_by_uid ----
    g_pc,             \* the generator: "created", "suspended", "raised"
    g_page,           \* its page counter (line 194, 221)
    g_requests,       \* pages it requested, in order
    g_yield,          \* what it yielded last: "-", "None", "batch"
    g_error,          \* the exception that ended it, "none" if none
    uid               \* the uid argument

search_vars == <<pc, page, limit, weibo_df, temp_weibo_df, status, ncards, index, item,
                 lt_request, error, file, exported_page, page_done, last_page_count,
                 params_page>>
time_vars == <<t_pc, weibo_time, check_result>>
gen_vars == <<g_pc, g_page, g_requests, g_yield, g_error, uid>>
vars == <<search_vars, start_time, end_time, time_vars, gen_vars>>

None == <<>>
Some(x) == <<x>>

\* ---------------------------------------------------------------- bounds
MaxPage == 2          \* pages a run may request
MaxLimit == 1         \* limit ranges over 0..MaxLimit
MaxCards == 2         \* cards on one page
MaxGenRequests == 4   \* requests one generator may issue

\* ------------------------------------------------------------- time filter
SecondsPerDay == 24 * 3600
\* Offset pytz's Asia/Shanghai carries when attached with datetime.replace: the
\* zone's first entry, local mean time +8:06, not China Standard Time.
ShanghaiReplaceOffset == 8 * 3600 + 6 * 60
\* China Standard Time, UTC+8.
ShanghaiStandardOffset == 8 * 3600

DaysBeforeMonth(m) ==
    CASE m = 1 -> 0 [] m = 2 -> 31 [] m = 3 -> 59 [] m = 4 -> 90 [] m = 5 -> 120
      [] m = 6 -> 151 [] m = 7 -> 181 [] m = 8 -> 212 [] m = 9 -> 243
      [] m = 10 -> 273 [] m = 11 -> 304 [] m = 12 -> 334

\* Seconds from 2022-01-01 00:00:00 to the wall-clock reading (years 2022, 2023).
NaiveSeconds(y, m, d, hh, mm, ss) ==
    ((y - 2022) * 365 + DaysBeforeMonth(m) + d - 1) * SecondsPerDay
      + hh * 3600 + mm * 60 + ss

\* strptime(weibo_time, "%a %b %d %H:%M:%S %z %Y"): an aware datetime, here its
\* absolute instant. The day of week is parsed and ignored.
str2instant(w) ==
    NaiveSeconds(w.year, w.mon, w.day, w.hh, w.mm, w.ss) - w.off

\* strptime(date, "%Y-%m-%d").replace(tzinfo=pytz.timezone('Asia/Shanghai'))
localize(date) ==
    NaiveSeconds(date.year, date.mon, date.day, 0, 0, 0) - ShanghaiReplaceOffset

check_time(start, end, w) ==
    LET t == str2instant(w)
        after_start == IF start # None /\ t < localize(start[1]) THEN FALSE ELSE TRUE
    IN  IF end # None /\ t > localize(end[1]) THEN FALSE ELSE after_start

\* ------------------------------------------------------------ the server
Statuses == {200, 404}
Ids == {1, 2}

\* created_at strings of the posts the search returns.
Jun15 == [mon |-> 6, day |-> 15, hh |-> 10, mm |-> 0, ss |-> 0, off |-> 8 * 3600, year |-> 2022]
Sep01 == [mon |-> 9, day |-> 1, hh |-> 0, mm |-> 0, ss |-> 0, off |-> 8 * 3600, year |-> 2022]

\* The text the search index carries for a post, and the text the long-text
\* endpoint holds for it.
InlineText(id) == <<"inline", id>>
LongTextContent(id) == <<"longTextContent", id>>

Posts == [id : Ids, created_at : {Jun15, Sep01}, isLongText : BOOLEAN,
          text : {InlineText(i) : i \in Ids}]

MblogPosts == {p \in Posts : p.text = InlineText(p.id)}

\* card_group, when present, is a list of elements that may carry an mblog.
Card(type, mblog, group) == [card_type |-> type, mblog |-> mblog, card_group |-> group]

NonPostCards ==
    { Card(7, None, None),                               \* intro
      Card(8, None, None),                               \* placeholder
      Card(11, None, None),                              \* group card without group
      Card(11, None, Some(<<>>)),                        \* group card, empty group
      Card(11, None, Some(<<[mblog |-> None]>>)),        \* first element without post
      Card(9, None, None) }                              \* neither mblog nor group

PostCards ==
    { Card(9, Some(p), None) : p \in MblogPosts }
      \cup { Card(11, None, Some(<<[mblog |-> Some(p)]>>)) : p \in MblogPosts }

Cards == NonPostCards \cup PostCards

NoItem == Card(0, None, None)

\* ------------------------------------------------- _parse_search_result
is_intro(c) == c.card_type = 7

is_placeholder(c) ==
    c.card_type = 8 \/ (c.card_type = 11 /\ c.card_group = None)

\* Lines 91-94: item.get('card_group')[0] raises on a missing group (TypeError)
\* and on an empty one (IndexError).
payload_error(c) ==
    IF c.mblog # None THEN "none"
    ELSE IF c.card_group = None THEN "TypeError"
    ELSE IF c.card_group[1] = <<>> THEN "IndexError"
    ELSE "none"

payload(c) ==
    IF c.mblog # None THEN c.mblog ELSE c.card_group[1][1].mblog


\* The body left as the search index gave it.
body_text_inline(post, long_text) == post.text
body_text(post, long_text) ==
    IF post.isLongText THEN long_text ELSE post.text

long_text_id(post) == post.id

\* The record of lines 100-112; the author fields and the three counts are
\* copied from the post like wid and are left out.
make_record(post, text) ==
    [wid |-> post.id,
     publish_time |-> [mon |-> post.created_at.mon, day |-> post.created_at.day,
                       hh |-> post.created_at.hh, mm |-> post.created_at.mm,
                       ss |-> post.created_at.ss, year |-> post.created_at.year],
     text |-> text,
     origin_publish_time |-> post.created_at]

Outcome(kind, err, data, req) ==
    [outcome |-> kind, error |-> err, data |-> data, lt_request |-> req]

\* One pass of the for loop of lines 86-117 over card c; lt_status is the status
\* the long-text endpoint answers with if it is asked.
parse_item(c, start, end, lt_status) ==
    IF is_intro(c) \/ is_placeholder(c) THEN Outcome("skip", "none", None, None)
    ELSE IF payload_error(c) # "none" THEN Outcome("raise", payload_error(c), None, None)
    ELSE IF payload(c) = None THEN Outcome("skip", "none", None, None)
    ELSE LET post == payload(c)[1] IN
         IF ~check_time(start, end, post.created_at)
         THEN Outcome("skip", "none", None, None)
         ELSE IF post.isLongText /\ lt_status # 200
         THEN Outcome("raise", "ValueError", None, Some(long_text_id(post)))
         ELSE Outcome("record", "none",
                      Some(make_record(post, body_text(post, LongTextContent(long_text_id(post))))),
                      IF post.isLongText THEN Some(long_text_id(post)) ELSE None)

\* ------------------------------------------------------------ search_weibo

\* An empty page not recognised.
cards_empty_never(n) == FALSE

\* The export appending to the file instead of replacing it.
to_excel_appending(old, df) == old \o df

\* The limit test off by one, and with >= for >.
over_limit_by_two(df, lim) == Len(df) > lim + 1
over_limit_or_equal(df, lim) == Len(df) >= lim
cards_empty(n) == n = 0
df_append(df, other) == df \o other
df_empty(df) == Len(df) = 0
to_excel(old, df) == df
over_limit(df, lim) == Len(df) > lim

\* main.py's window.
MainStart == Some([year |-> 2022, mon |-> 6, day |-> 1])
MainEnd == Some([year |-> 2022, mon |-> 8, day |-> 31])

IdleTime ==
    /\ t_pc = "idle" /\ weibo_time = Jun15 /\ check_result = TRUE
IdleGen ==
    /\ g_pc = "idle" /\ g_page = 1 /\ g_requests = <<>> /\ g_yield = "-"
    /\ g_error = "none" /\ uid = 0
IdleSearch ==
    /\ pc = "idle" /\ page = 0 /\ limit = 0 /\ weibo_df = <<>> /\ temp_weibo_df = <<>>
    /\ status = 200 /\ ncards = 0 /\ index = 0 /\ item = NoItem /\ lt_request = None
    /\ error = "none" /\ file = <<>> /\ exported_page = 0 /\ page_done = 0
    /\ last_page_count = 0 /\ params_page = 0

\* search_weibo called as main.py calls it, on a fresh export directory.
Init ==
    /\ pc = "loop" /\ page = 0 /\ limit \in 0..MaxLimit
    /\ start_time = MainStart /\ end_time = MainEnd
    /\ weibo_df = <<>> /\ temp_weibo_df = <<>>
    /\ status = 200 /\ ncards = 0 /\ index = 0 /\ item = NoItem /\ lt_request = None
    /\ error = "none" /\ file = <<>> /\ exported_page = 0 /\ page_done = 0
    /\ last_page_count = 0 /\ params_page = 0
    /\ IdleTime /\ IdleGen

\* Lines 39-41 and 54-61: the request for the next page and the server's answer.
get_search_result ==
    /\ pc = "loop"
    /\ page < MaxPage
    /\ page' = page + 1
    /\ params_page' = page'
    /\ \E st \in Statuses, n \in 0..MaxCards :
         /\ status' = st
         /\ ncards' = IF st = 200 THEN n ELSE 0
    /\ pc' = "fetched"
    /\ UNCHANGED <<limit, weibo_df, temp_weibo_df, index, item, lt_request, error, file,
                   exported_page, page_done, last_page_count>>


\* The failing page's records written out on the way out.
raise_exporting(kind) ==
    /\ pc' = "failed"
    /\ error' = kind
    /\ file' = df_append(weibo_df, temp_weibo_df)
    /\ UNCHANGED <<page, weibo_df, exported_page, page_done, last_page_count,
                   params_page>>
\* An exception leaves search_weibo: nothing catches it.
raise(kind) ==
    /\ pc' = "failed"
    /\ error' = kind
    /\ UNCHANGED <<page, weibo_df, file, exported_page, page_done, last_page_count,
                   params_page>>

\* Lines 62-66, 42-43 and 82-85: the status check, the test for an empty page,
\* and the entry into _parse_search_result (which returns at once on no cards).
check_response ==
    /\ pc = "fetched"
    /\ IF status # 200
       THEN /\ raise("ValueError")
            /\ UNCHANGED <<temp_weibo_df, index, item, lt_request>>
       ELSE IF cards_empty(ncards)
       THEN /\ pc' = "done"
            /\ UNCHANGED <<page, weibo_df, temp_weibo_df, index, item, lt_request, error,
                           file, exported_page, page_done, last_page_count, params_page>>
       ELSE /\ pc' = IF ncards = 0 THEN "merge" ELSE "parse"
            /\ temp_weibo_df' = <<>>
            /\ index' = 0
            /\ UNCHANGED <<page, weibo_df, item, lt_request, error, file, exported_page,
                           page_done, last_page_count, params_page>>
    /\ UNCHANGED <<limit, status, ncards>>

\* Lines 86-117 for the next card of the page; the card is read off the response
\* as the loop reaches it.
parse_card ==
    /\ pc = "parse"
    /\ \E c \in Cards, lt_status \in Statuses :
         LET r == parse_item(c, start_time, end_time, lt_status) IN
         /\ item' = c
         /\ lt_request' = r.lt_request
         /\ IF r.outcome = "raise"
            THEN /\ raise(r.error)
                 /\ UNCHANGED <<temp_weibo_df, index>>
            ELSE /\ temp_weibo_df' = IF r.outcome = "record"
                                     THEN Append(temp_weibo_df, r.data[1])
                                     ELSE temp_weibo_df
                 /\ index' = index + 1
                 /\ pc' = IF index + 1 = ncards THEN "merge" ELSE "parse"
                 /\ UNCHANGED <<page, weibo_df, error, file, exported_page, page_done,
                                last_page_count, params_page>>
    /\ UNCHANGED <<limit, status, ncards>>

\* Lines 45-52: append the page's records, export, test the limit.
append_and_export ==
    /\ pc = "merge"
    /\ weibo_df' = df_append(weibo_df, temp_weibo_df)
    /\ last_page_count' = Len(temp_weibo_df)
    /\ page_done' = page
    /\ IF ~df_empty(weibo_df')
       THEN /\ file' = to_excel(file, weibo_df')
            /\ exported_page' = page
       ELSE UNCHANGED <<file, exported_page>>
    /\ pc' = IF over_limit(weibo_df', limit) THEN "done" ELSE "loop"
    /\ item' = NoItem
    /\ lt_request' = None
    /\ UNCHANGED <<page, limit, temp_weibo_df, status, ncards, index, error, params_page>>

Next ==
    \/ get_search_result /\ UNCHANGED <<start_time, end_time, time_vars, gen_vars>>
    \/ check_response /\ UNCHANGED <<start_time, end_time, time_vars, gen_vars>>
    \/ parse_card /\ UNCHANGED <<start_time, end_time, time_vars, gen_vars>>
    \/ append_and_export /\ UNCHANGED <<start_time, end_time, time_vars, gen_vars>>

Spec == Init /\ [][Next]_vars

\* ------------------------------------------------- search_weibo, unbounded
\* The same loop with no bound on the number of requests: page counts up to
\* MaxPage and from there stands for every later page.
get_search_result_live ==
    /\ pc = "loop"
    /\ page' = IF page < MaxPage THEN page + 1 ELSE page
    /\ params_page' = page'
    /\ \E st \in Statuses, n \in 0..MaxCards :
         /\ status' = st
         /\ ncards' = IF st = 200 THEN n ELSE 0
    /\ pc' = "fetched"
    /\ UNCHANGED <<limit, weibo_df, temp_weibo_df, index, item, lt_request, error, file,
                   exported_page, page_done, last_page_count>>

NextLive ==
    \/ get_search_result_live /\ UNCHANGED <<start_time, end_time, time_vars, gen_vars>>
    \/ check_response /\ UNCHANGED <<start_time, end_time, time_vars, gen_vars>>
    \/ parse_card /\ UNCHANGED <<start_time, end_time, time_vars, gen_vars>>
    \/ append_and_export /\ UNCHANGED <<start_time, end_time, time_vars, gen_vars>>

\* search_weibo is straight-line sequential code: whenever it has a next step it
\* takes it.
SpecLive == Init /\ [][NextLive]_vars /\ WF_vars(NextLive)

\* ------------------------------------------------------ check_time alone
CalendarDays == { <<5, 31>>, <<6, 1>>, <<6, 15>>, <<8, 30>>, <<8, 31>>, <<9, 1>> }

WeiboTimes ==
    { [mon |-> d[1], day |-> d[2], hh |-> h, mm |-> m, ss |-> 0, off |-> o, year |-> 2022] :
        d \in CalendarDays, h \in {0, 10, 23}, m \in {0, 54, 57}, o \in {0, 8 * 3600} }

InitTime ==
    /\ t_pc = "call"
    /\ start_time \in {None, MainStart}
    /\ end_time \in {None, MainEnd}
    /\ weibo_time \in WeiboTimes
    /\ check_result = TRUE
    /\ IdleSearch /\ IdleGen

call_check_time ==
    /\ t_pc = "call"
    /\ check_result' = check_time(start_time, end_time, weibo_time)
    /\ t_pc' = "returned"
    /\ UNCHANGED <<search_vars, start_time, end_time, weibo_time, gen_vars>>

NextTime == call_check_time

SpecTime == InitTime /\ [][NextTime]_vars

\* ------------------------------------------------------ get_weibo_by_uid
Uids == {1001, 1002, 1003}

\* datetime.datetime.strptime takes a str and raises TypeError on anything else.
strptime_accepts(kind) == kind = "str"

\* Line 219 hands check_time the dict built in lines 210-218.
weibo_kind == "dict"

InitUid ==
    /\ g_pc = "created" /\ g_page = 1 /\ g_requests = <<>> /\ g_yield = "-"
    /\ g_error = "none"
    /\ uid \in Uids
    /\ start_time \in {None, MainStart}
    /\ end_time \in {None, MainEnd}
    /\ IdleSearch /\ IdleTime

\* One resumption of the generator (next()): lines 196-222 up to the next yield.
gen_next ==
    /\ g_pc \in {"created", "suspended"}
    /\ Len(g_requests) < MaxGenRequests
    /\ g_requests' = Append(g_requests, g_page)
    /\ \E ok \in BOOLEAN, n \in 0..MaxCards :
         IF ~ok
         THEN /\ g_pc' = "raised" /\ g_error' = "Exception"
              /\ UNCHANGED <<g_page, g_yield>>
         ELSE IF n = 0
         THEN /\ g_yield' = "None" /\ g_pc' = "suspended"
              /\ UNCHANGED <<g_page, g_error>>
         ELSE IF ~strptime_accepts(weibo_kind)
         THEN /\ g_pc' = "raised" /\ g_error' = "TypeError"
              /\ UNCHANGED <<g_page, g_yield>>
         ELSE /\ g_page' = g_page + 1
              /\ g_yield' = "batch" /\ g_pc' = "suspended"
              /\ UNCHANGED g_error
    /\ UNCHANGED <<search_vars, start_time, end_time, time_vars, uid>>

NextUid == gen_next

SpecUid == InitUid /\ [][NextUid]_vars

\* ================================================================ claims
Terminated == pc \in {"done", "failed"}

\* The iteration for the current page ran to its end (line 51).
AfterPage == page >= 1 /\ page_done = page /\ pc \in {"loop", "done"}

\* C1: the accumulator never exceeds limit by more than one page's worth:
\* whenever a page is about to be fetched it holds at most limit records, and at
\* every point it, and the exported file, hold at most limit plus the number of
\* records the last appended page contributed.
C1_AccumulatorBound ==
    /\ pc = "loop" => Len(weibo_df) <= limit
    /\ Len(weibo_df) <= limit + last_page_count
    /\ Len(file) <= limit + last_page_count

\* The run stopped over the limit, on its second page or later, by a full page.
C1_Witness ==
    /\ pc = "done" /\ page >= 2
    /\ Len(weibo_df) > limit
    /\ last_page_count = MaxCards
    /\ Len(file) = limit + last_page_count

\* On termination the exported count is 0, at most limit, or over limit by at
\* most one page's excess.
FinalCount ==
    \/ Len(file) = 0
    \/ Len(file) <= limit
    \/ Len(file) - limit <= last_page_count

\* C2 as stated: search_weibo terminates whatever pages the server returns, and
\* on termination the exported count is 0, at most limit, or over limit by at
\* most one page's excess.
C2_AlwaysTerminates ==
    /\ <>Terminated
    /\ [](Terminated => FinalCount)

\* Something that ends the loop has happened: an empty page or a failed request
\* came back, or the page just parsed takes the accumulator over the limit.
StopCondition ==
    \/ pc = "fetched" /\ (status # 200 \/ ncards = 0)
    \/ pc = "merge" /\ Len(weibo_df) + Len(temp_weibo_df) > limit

\* C2 amended: search_weibo terminates once the server returns an empty page or
\* a non-200 status or the accumulated count exceeds limit (it need not
\* terminate before that), and on termination the exported count is 0, at most
\* limit, or over limit by at most one page's excess.
C2_TerminatesOnStop ==
    /\ StopCondition ~> Terminated
    /\ [](Terminated => FinalCount)

\* The run ended on an empty page after a page that contributed nothing.
C2_Witness ==
    /\ pc = "done" /\ page >= 2 /\ ncards = 0 /\ status = 200
    /\ page_done = page - 1 /\ last_page_count = 0

\* C3 as stated: after every processed page the file has been overwritten in
\* that iteration and its rows are exactly the accumulator, also while the
\* accumulator is still empty.
C3_ExportAfterEveryPage ==
    AfterPage => exported_page = page /\ file = weibo_df

\* C3 amended: after a processed page that leaves the accumulator non-empty the
\* file has been overwritten in that iteration and its rows are exactly the
\* accumulator; while the accumulator is still empty nothing is exported and
\* the file is as it was before the run.
C3_ExportWhenNonEmpty ==
    AfterPage =>
        IF weibo_df # <<>>
        THEN exported_page = page /\ file = weibo_df
        ELSE exported_page = 0 /\ file = <<>>

\* The file was written a second time, after a page that added to what the
\* first write held.
C3_Witness ==
    /\ AfterPage /\ page >= 2 /\ exported_page = page
    /\ last_page_count >= 1 /\ Len(file) > last_page_count

\* C4: a non-200 answer to a search-page or long-text request fails the crawl
\* at once: the failing step and everything after it request no page and export
\* nothing, and the file holds exactly the accumulator of the pages completed
\* before the failing one, with no record of the failing page.
C4_FailureLeavesLastExport ==
    /\ [](error = "ValueError" =>
            /\ pc = "failed"
            /\ file = weibo_df
            /\ page_done = page - 1
            /\ exported_page <= page_done)
    /\ [][error' = "ValueError" =>
            /\ file' = file /\ weibo_df' = weibo_df
            /\ page' = page /\ params_page' = params_page
            /\ exported_page' = exported_page]_vars

\* A long-text request failed after a record of the same page had been parsed
\* and an earlier page had been exported.
C4_Witness ==
    /\ error = "ValueError" /\ lt_request # None
    /\ Len(temp_weibo_df) >= 1 /\ Len(file) >= 1

\* check_time as C5 states it: bounds at 00:00 of the date at UTC+8.
StandardMidnight(date) ==
    NaiveSeconds(date.year, date.mon, date.day, 0, 0, 0) - ShanghaiStandardOffset

\* C5: check_time returns true exactly when the timestamp is not earlier than
\* 00:00 UTC+8 of the start date (if given) and not later than 00:00 UTC+8 of
\* the end date (if given).
C5_CheckTimeShanghai ==
    t_pc = "returned" =>
        check_result =
            (/\ start_time = None \/ str2instant(weibo_time) >= StandardMidnight(start_time[1])
             /\ end_time = None \/ str2instant(weibo_time) <= StandardMidnight(end_time[1]))

\* C6: once get_weibo_by_uid has signalled an empty page with None it issues no
\* further request and yields nothing more; every batch yielded advances the
\* page counter by one, and no page is requested twice.
C6_EmptyPageEndsSequence ==
    [][/\ g_yield = "None" => g_requests' = g_requests /\ g_yield' = g_yield
       /\ g_yield' = "batch" => g_page' = g_page + 1
       /\ \A i, j \in 1..Len(g_requests') : i # j => g_requests'[i] # g_requests'[j]]_vars

\* C7: no two records of the accumulator, and no two rows of the file, have the
\* same id.
C7_UniqueIds ==
    /\ \A i, j \in 1..Len(weibo_df) : i # j => weibo_df[i].wid # weibo_df[j].wid
    /\ \A i, j \in 1..Len(file) : i # j => file[i].wid # file[j].wid

\* C8: each request asks for the next page number; the loop stops exactly at an
\* empty page (adding no record, exporting nothing) or right after a page that
\* takes the count above limit, and in every other case is back at the top of
\* the loop.
C8_PageOrderAndStop ==
    [][/\ pc = "loop" => page' = page + 1 /\ params_page' = page + 1
       /\ pc # "loop" => page' = page /\ params_page' = params_page
       /\ (pc = "fetched" /\ status = 200 /\ ncards = 0) =>
            /\ pc' = "done"
            /\ weibo_df' = weibo_df /\ file' = file /\ exported_page' = exported_page
       /\ pc = "merge" => pc' = IF Len(weibo_df') > limit THEN "done" ELSE "loop"
       /\ (pc' = "done" /\ pc # "done") =>
            \/ pc = "fetched" /\ status = 200 /\ ncards = 0
            \/ pc = "merge" /\ Len(weibo_df') > limit]_vars

\* Back at the top of the loop after a second page that was not empty and
\* contributed nothing, with the count equal to limit.
C8_Witness ==
    /\ pc = "loop" /\ page >= 2 /\ page_done = page
    /\ limit >= 1 /\ Len(weibo_df) = limit /\ last_page_count = 0

\* A card that carries no post: an intro, a placeholder, or one with no direct
\* post and no first group element with a post.
CarriesNoPost(c) ==
    \/ c.card_type \in {7, 8}
    \/ /\ c.mblog = None
       /\ \/ c.card_group = None
          \/ c.card_group[1] = <<>>
          \/ c.card_group[1][1].mblog = None

\* C9: a card that carries no post produces no record and no failure, and the
\* loop moves on to the next card.
C9_NoPostNoFailure ==
    [][(pc = "parse" /\ CarriesNoPost(item')) =>
            /\ error' = "none"
            /\ temp_weibo_df' = temp_weibo_df
            /\ index' = index + 1]_vars

PostOf(c) == IF c.mblog # None THEN c.mblog[1] ELSE c.card_group[1][1].mblog[1]

\* C10: a recorded post flagged isLongText has as body the long-text endpoint's
\* content for its id, asked for with that id; a recorded post not flagged keeps
\* its inline text and no long-text request is made; a card that is skipped or
\* rejected by the time filter makes no long-text request.
C10_LongTextBody ==
    [][pc = "parse" =>
        /\ temp_weibo_df' # temp_weibo_df =>
             /\ ~CarriesNoPost(item')
             /\ Len(temp_weibo_df') = Len(temp_weibo_df) + 1
             /\ LET post == PostOf(item')
                    rec == temp_weibo_df'[Len(temp_weibo_df')]
                IN  /\ rec.wid = post.id
                    /\ rec.text = IF post.isLongText
                                  THEN LongTextContent(post.id) ELSE InlineText(post.id)
                    /\ lt_request' = IF post.isLongText THEN Some(post.id) ELSE None
        /\ (temp_weibo_df' = temp_weibo_df /\ error' = "none") => lt_request' = None
        /\ lt_request' # None =>
             /\ ~CarriesNoPost(item')
             /\ PostOf(item').isLongText
             /\ PostOf(item').created_at = Jun15
             /\ lt_request' = Some(PostOf(item').id)]_vars

\* A flagged post with id 2 was recorded with the endpoint's content for id 2,
\* after a post that was not flagged.
C10_Witness ==
    /\ Len(temp_weibo_df) = 2
    /\ temp_weibo_df[1].text = InlineText(temp_weibo_df[1].wid)
    /\ temp_weibo_df[2].wid = 2
    /\ temp_weibo_df[2].text = LongTextContent(2)
    /\ lt_request = Some(2)

====
